---- MODULE Spec2Model ----
(***************************************************************************)
(* Transrangers: resumable, push-driven range evaluators ("rangers") and   *)
(* the combinators built on them (include/transrangers.hpp and             *)
(* include/transrangers_ext.hpp).                                          *)
(*                                                                         *)
(* A ranger is a value: a record holding the state its closure captures.   *)
(* A sink is the stack of closures the rangers of a pipeline wrap around   *)
(* the caller's callable; each frame holds the variables its lambda        *)
(* captures by reference, so that running the upstream ranger with the     *)
(* stack and reading the frame back is the by-reference capture of the     *)
(* code.  The world w holds what lives outside the ranger value: the       *)
(* sources' storage, the function objects transform cursors point to, and  *)
(* the record of what the caller's sink has seen.                          *)
(***************************************************************************)
EXTENDS Integers, Sequences, FiniteSets, TLC

\* ------------------------------------------------------------------ bounds
MaxLen == 3        \* longest source
MaxAgain == 1      \* invocations of a ranger after it first returned true
MaxTake == 3       \* largest count given to take

Vals == {1, 2, 3}  \* the elements of the sources
Inits == {0, 6}    \* the initial values given to accumulate (tests: 0 and 6)

\* ----------------------------------------------------------------- cursors
\* An iterator into a source: the source's name (a path) and a position,
\* 1 .. Len+1, Len+1 being end().
PosCursor(src, i) == [k |-> "pos", src |-> src, i |-> i]

\* cursor{}: a value-initialised iterator, which refers to nothing.
NullCursor == [k |-> "null"]

deref_fun(p, pf) == [k |-> "fun", p |-> p, pf |-> pf]

zip_cursor(ps) == [k |-> "zip", ps |-> ps]

\* What a dereference of a cursor that refers to nothing evaluates to.
Garbage == -1

\* The storage of a source: a named vector, or the j-th vector of a named
\* vector of vectors.
SrcSeq(mem, src) == IF Len(src) = 1 THEN mem[src[1]] ELSE mem[src[1]][src[2]]

\* The vectors of vectors.
Nested == {"R"}

\* The buffers of the vectors the rangers own are the entries of mem.H, a
\* cursor into the k-th has the path <<"H", k>>, and mem.live is the buffers
\* not freed yet.  A read through an iterator into a freed buffer is
\* undefined behaviour; it gives what the buffer holds since it was freed.
Live(mem, src) == src[1] # "H" \/ src[2] \in mem.live

Read(w, src) == IF Live(w.mem, src) THEN w ELSE [w EXCEPT !.ub = TRUE]

\* ---------------------------------------------------------- user functions
\* The predicates of the tests: is_odd, is_even (on int), and snd_odd, is_odd
\* of the second component of a pair.  The function objects: x3 and sum of
\* the tests, the lambda of enumerate, and unique_adaptor, which makes
\* unique(all(srng)) of a vector.
ApplyPred(pred, x) ==
  CASE pred = "is_odd" -> x % 2 = 1
    [] pred = "is_even" -> x % 2 = 0
    [] pred = "snd_odd" -> x[2] % 2 = 1
    [] OTHER -> TRUE

\* The function objects given to transform.  A function object is named by
\* pf, its place in w.fst (the pointer F* of deref_fun); the enumerate lambda
\* is the only one with state, its captured index.  d is the dereferenced
\* upstream cursor, [v, w].
ApplyF(pf, d) ==
  LET w1 == [d.w EXCEPT !.fcalls = @ + 1] IN
  CASE pf.name = "x3" -> [v |-> 3 * d.v, w |-> w1]
    [] pf.name = "sum" -> [v |-> d.v[1] + d.v[2], w |-> w1]
    [] pf.name = "enumerate" ->
         [v |-> <<d.w.fst[pf.id], d.v>>, w |-> [w1 EXCEPT !.fst[pf.id] = @ + 1]]
    [] pf.name = "unique_adaptor" ->
         [v |-> [op |-> "unique", start |-> TRUE, p |-> NullCursor,
                 rgr |-> [op |-> "all", src |-> d.v.src, first |-> 1,
                          last |-> d.v.n + 1, exh |-> FALSE, re |-> FALSE]],
          w |-> w1]

RECURSIVE Deref(_, _)
RECURSIVE DerefAll(_, _, _)
RECURSIVE DerefN(_, _, _, _)
RECURSIVE CallSink(_, _, _)
RECURSIVE Invoke(_, _, _)
RECURSIVE AllLoop(_, _, _, _)
RECURSIVE PullRest(_, _, _, _)

\* operator* of a cursor: [v, w], the value and the world after it.
Deref(c, w) ==
  CASE c.k = "pos" ->
         IF c.i \in 1..Len(SrcSeq(w.mem, c.src))
           THEN IF Len(c.src) = 1 /\ c.src[1] \in Nested
                  THEN [v |-> [src |-> <<c.src[1], c.i>>,
                               n |-> Len(SrcSeq(w.mem, c.src)[c.i])], w |-> w]
                  ELSE [v |-> SrcSeq(w.mem, c.src)[c.i], w |-> Read(w, c.src)]
           ELSE [v |-> Garbage, w |-> [w EXCEPT !.ub = TRUE]]
    [] c.k = "null" -> [v |-> Garbage, w |-> [w EXCEPT !.ub = TRUE]]
    [] c.k = "fun" -> ApplyF(c.pf, Deref(c.p, w))
    [] c.k = "zip" -> DerefAll(c.ps, <<>>, w)

DerefAllNext(ps, vs, d) == DerefAll(ps, Append(vs, d.v), d.w)

\* zip_cursor::operator*: std::tuple<decltype(*ps)...>{*ps...}, the sub-cursors
\* left to right; vs are the values so far.
DerefAll(ps, vs, w) ==
  IF ps = <<>> THEN [v |-> vs, w |-> w]
  ELSE DerefAllNext(Tail(ps), vs, Deref(Head(ps), w))

DerefNNext(c, n, vs, d) == DerefN(c, n, Append(vs, d.v), d.w)

\* n successive dereferences of one cursor, as a sink may perform.
DerefN(c, n, vs, w) ==
  IF n = 0 THEN [v |-> vs, w |-> w]
  ELSE DerefNNext(c, n - 1, vs, Deref(c, w))

\* *p = v through an iterator.
Assign(c, v, w) ==
  IF c.k = "pos" /\ c.i \in 1..Len(SrcSeq(w.mem, c.src))
    THEN IF Len(c.src) = 1
           THEN [w EXCEPT !.mem[c.src[1]][c.i] = v]
           ELSE [w EXCEPT !.mem[c.src[1]][c.src[2]][c.i] = v]
    ELSE [w EXCEPT !.ub = TRUE]

\* ------------------------------------------------------------- results
\* What a call of a sink gives: what it returned, the sink and the world after.
SR(ret, sink, w) == [ret |-> ret, sink |-> sink, w |-> w]
\* What a call of a ranger gives: the same, and the ranger after the call.
RR(ret, r, sink, w) == [ret |-> ret, r |-> r, sink |-> sink, w |-> w]

\* A lambda that returns what dst returned: x is dst's result, fr the lambda.
Under(fr, x) == SR(x.ret, <<fr>> \o x.sink, x.w)
\* A ranger that returns what its upstream ranger returned: x is rgr(lambda).
Over(r, x) == RR(x.ret, [r EXCEPT !.rgr = x.r], Tail(x.sink), x.w)

\* ----------------------------------------------------------------- rangers
\* The closure of all, skip_first, skip_last and skip_both: the iterators
\* first and last captured when the ranger is made.  exh and re are history
\* variables: the ranger has returned true, and it was invoked after that.
AllRanger(src, first, last) ==
  [op |-> "all", src |-> src, first |-> first, last |-> last,
   exh |-> FALSE, re |-> FALSE]

\* all(rng) for a source of n elements: [begin, end).
all(src, n) == AllRanger(<<src>>, 1, n + 1)

\* first = ++begin(rng)
skip_first(src, n) == AllRanger(<<src>>, 2, n + 1)

\* last = --end(rng)
skip_last(src, n) == AllRanger(<<src>>, 1, n)

\* first = ++begin(rng), last = --end(rng)
\* skip_both with last = end(rng).
skip_both_toEnd(src, n) == AllRanger(<<src>>, 2, n + 1)

skip_both(src, n) == AllRanger(<<src>>, 2, n)

\* all_copy<Range>{std::move(rng)} and skip_first_copy<Range>{std::move(rng)}:
\* rng takes over the buffer k of the temporary, of n elements, and the
\* default member initialiser makes rgr = all(rng) or skip_first(rng).
all_copy(k, n) == [op |-> "all_copy", rng |-> k, rgr |-> AllRanger(<<"H", k>>, 1, n + 1)]

skip_first_copy(k, n) ==
  [op |-> "all_copy", rng |-> k, rgr |-> AllRanger(<<"H", k>>, 2, n + 1)]

filter(pred_, rgr) == [op |-> "filter", pred |-> pred_, rgr |-> rgr]

transform(f, rgr) == [op |-> "transform", f |-> f, rgr |-> rgr]

take(n, rgr) == [op |-> "take", n |-> n, rgr |-> rgr]

\* concat(rgr, rgrs...): next is concat(rgrs...), and concat(rgr) is rgr.
concat(rgr, next) == [op |-> "concat", cont |-> FALSE, rgr |-> rgr, next |-> next]

unique(rgr) == [op |-> "unique", start |-> TRUE, p |-> NullCursor, rgr |-> rgr]

zip2(rgr1, rgr2) ==
  [op |-> "zip2", zp |-> zip_cursor(<<NullCursor, NullCursor>>),
   rgr1 |-> rgr1, rgr2 |-> rgr2]

\* zip(rgr, rgrs...), rgrs a sequence.
zip(rgr, rgrs) ==
  [op |-> "zip", zp |-> zip_cursor([i \in 1..(Len(rgrs) + 1) |-> NullCursor]),
   rgr |-> rgr, rgrs |-> rgrs]

\* The lambda of enumerate, with index = 0, as function object id of w.fst.
enumerate(id, rgr) == transform([name |-> "enumerate", id |-> id], rgr)

\* join<Ranger, Adaption>(rgr): osrgr is the std::optional<subranger>, empty
\* or holding one ranger.
join(adapt, rgr) == [op |-> "join", adapt |-> adapt, osrgr |-> <<>>, rgr |-> rgr]

ranger_join(rgr) == join("all_adaption", rgr)

\* Adaption::adapt(*p): all_adaption makes all(srgn) of the vector *p refers
\* to, identity_adaption takes *p, a ranger, as it is.
Adapt(adapt, v) ==
  IF adapt = "all_adaption" THEN AllRanger(v.src, 1, v.n + 1) ELSE v

\* ------------------------------------------------------------------- sinks
\* The caller's callable: it dereferences each cursor nd times, returns true
\* until its stopAt-th call and false from then on (stopAt = 0: always true).
\* calls, stopped and late record what it saw: the number of calls, whether it
\* has returned false, and whether it was called after it had.
OutSink(stopAt, nd) ==
  [t |-> "out", stopAt |-> stopAt, nd |-> nd, calls |-> 0,
   stopped |-> FALSE, late |-> FALSE]

outSinkDone(fr, p, d) ==
  LET ans == (fr.stopAt = 0) \/ (fr.calls + 1 < fr.stopAt)
  IN SR(ans,
        <<[fr EXCEPT !.calls = @ + 1, !.stopped = @ \/ ~ans, !.late = @ \/ fr.stopped]>>,
        [d.w EXCEPT !.log = Append(@, [c |-> p, v |-> d.v])])

outSink(fr, dst, p, w) == outSinkDone(fr, p, DerefN(p, fr.nd, <<>>, w))

\* A callable that returns false at its stopAt-th call only and true at every
\* other call, the later ones included.  Here stopped is whether its last
\* answer was false, and late whether it was called after a false answer.
OnceSink(stopAt, nd) ==
  [t |-> "once", stopAt |-> stopAt, nd |-> nd, calls |-> 0,
   stopped |-> FALSE, late |-> FALSE]

onceSinkDone(fr, p, d) ==
  SR(fr.calls + 1 # fr.stopAt,
     <<[fr EXCEPT !.calls = @ + 1, !.stopped = (fr.calls + 1 = fr.stopAt),
                  !.late = @ \/ fr.stopped]>>,
     [d.w EXCEPT !.log = Append(@, [c |-> p, v |-> d.v])])

onceSink(fr, dst, p, w) == onceSinkDone(fr, p, DerefN(p, fr.nd, <<>>, w))

\* accumulate with a sink that stops the ranger.
accumulateAdd_stop(fr, d) == SR(FALSE, <<[fr EXCEPT !.init = @ + d.v]>>, d.w)

accumulateAdd(fr, d) == SR(TRUE, <<[fr EXCEPT !.init = @ + d.v]>>, d.w)

\* accumulate's lambda: init = std::move(init) + *p; return true.
accumulateSink(fr, dst, p, w) == accumulateAdd(fr, Deref(p, w))

\* partial_sum storing the sum before the element is added.
partial_sumAdd_before(fr, p, d) ==
  SR(TRUE, <<[fr EXCEPT !.init = @ + d.v]>>, Assign(p, fr.init, d.w))

partial_sumAdd(fr, p, d) ==
  SR(TRUE, <<[fr EXCEPT !.init = @ + d.v]>>, Assign(p, fr.init + d.v, d.w))

\* partial_sum's lambda: init = std::move(init) + *p; *p = init; return true.
partial_sumSink(fr, dst, p, w) == partial_sumAdd(fr, p, Deref(p, w))

\* filter stopping the upstream ranger at an element the predicate rejects.
filterTest_stop(fr, dst, p, d) ==
  IF ApplyPred(fr.pred, d.v)
    THEN Under(fr, CallSink(dst, p, d.w))
    ELSE SR(FALSE, <<fr>> \o dst, d.w)

filterTest(fr, dst, p, d) ==
  IF ApplyPred(fr.pred, d.v)
    THEN Under(fr, CallSink(dst, p, d.w))
    ELSE SR(TRUE, <<fr>> \o dst, d.w)

\* filter's lambda: pred(*p) ? dst(p) : true.
filterSink(fr, dst, p, w) == filterTest(fr, dst, p, Deref(p, w))

\* transform computing f(*p) when it delivers the cursor.
transformSink_eager(fr, dst, p, w) ==
  Under(fr, CallSink(dst, deref_fun(p, fr.f), ApplyF(fr.f, Deref(p, w)).w))

\* transform's lambda: dst(cursor{p, &f}).
transformSink(fr, dst, p, w) == Under(fr, CallSink(dst, deref_fun(p, fr.f), w))

takeAnd(fr, x) == SR(x.ret /\ (fr.n # 0), <<fr>> \o x.sink, x.w)

\* take's lambda: --n; return dst(p) && (n != 0).
takeSink(fr, dst, p, w) == takeAnd([fr EXCEPT !.n = @ - 1], CallSink(dst, p, w))

\* unique's first lambda: p = q; return false.
uniqueFirstSink(fr, dst, q, w) == SR(FALSE, <<[fr EXCEPT !.p = q]>>, w)

\* unique that does not retain the cursor at which its sink stopped.
uniqueDelivered_keep(fr, q, x) == SR(x.ret, <<[fr EXCEPT !.prev = q]>> \o x.sink, x.w)

\* unique comparing with an element older than the last delivered one.
uniqueDelivered_stale(fr, q, x) ==
  IF x.ret
    THEN SR(TRUE, <<fr>> \o x.sink, x.w)
    ELSE SR(FALSE, <<[fr EXCEPT !.p = q]>> \o x.sink, x.w)

uniqueDelivered(fr, q, x) ==
  IF x.ret
    THEN SR(TRUE, <<[fr EXCEPT !.prev = q]>> \o x.sink, x.w)
    ELSE SR(FALSE, <<[fr EXCEPT !.p = q]>> \o x.sink, x.w)

uniqueCompare(fr, dst, q, a, b) ==
  IF a = b.v
    THEN SR(TRUE, <<[fr EXCEPT !.prev = q]>> \o dst, b.w)
    ELSE uniqueDelivered(fr, q, CallSink(dst, q, b.w))

uniqueDerefQ(fr, dst, q, a) == uniqueCompare(fr, dst, q, a.v, Deref(q, a.w))

\* unique's second lambda, prev its own copy of p:
\* if ((*prev == *q) || dst(q)) { prev = q; return true; } else { p = q; return false; }
uniqueSink(fr, dst, q, w) == uniqueDerefQ(fr, dst, q, Deref(fr.prev, w))

\* zip's single-shot lambda (__lambda_255_33, and the inner lambda of zip2):
\* std::get<slot>(zp.ps) = p; return false.
ZipSet(zp, slot) == [t |-> "zset", zp |-> zp, slot |-> slot]

\* The single-shot lambda letting the pulled ranger run on.
zipSetSink_greedy(fr, dst, p, w) == SR(TRUE, <<[fr EXCEPT !.zp.ps[fr.slot] = p]>>, w)

zipSetSink(fr, dst, p, w) == SR(FALSE, <<[fr EXCEPT !.zp.ps[fr.slot] = p]>>, w)

\* return dst(zp);
zipDeliver(fr, dst, w) == Under(fr, CallSink(dst, fr.zp, w))

\* zip2 that does not keep the state its second input was left in by a pull.
zip2Pulled_rewind(fr, dst, x) ==
  IF x.ret
    THEN SR(FALSE,
            <<[fr EXCEPT !.zp = x.sink[1].zp, !.rgr2 = x.r, !.finished = TRUE]>> \o dst,
            x.w)
    ELSE zipDeliver([fr EXCEPT !.zp = x.sink[1].zp], dst, x.w)

zip2Pulled(fr, dst, x) ==
  IF x.ret
    THEN SR(FALSE,
            <<[fr EXCEPT !.zp = x.sink[1].zp, !.rgr2 = x.r, !.finished = TRUE]>> \o dst,
            x.w)
    ELSE zipDeliver([fr EXCEPT !.zp = x.sink[1].zp, !.rgr2 = x.r], dst, x.w)

\* zip2 that does not store the cursor of its first input in the composite.
zip2Sink_unset(fr, dst, p, w) ==
  zip2Pulled(fr, dst, Invoke(fr.rgr2, <<ZipSet(fr.zp, 2)>>, w))

\* zip2's outer lambda: std::get<0>(zp.ps) = p; if (rgr2(single-shot))
\* { finished = true; return false; } return dst(zp);
zip2Sink(fr, dst, p, w) ==
  zip2Pulled(fr, dst, Invoke(fr.rgr2, <<ZipSet([fr.zp EXCEPT !.ps[1] = p], 2)>>, w))

PullNext(rgrs, i, x) ==
  IF x.ret
    THEN [any |-> TRUE, rgrs |-> [rgrs EXCEPT ![i] = x.r], zp |-> x.sink[1].zp, w |-> x.w]
    ELSE PullRest([rgrs EXCEPT ![i] = x.r], i + 1, x.sink[1].zp, x.w)

\* __lambda_249_18: (std::get<I>(rgrs)(__lambda_255_33<I>{zp}) || ...), the
\* rangers from the i-th on, left to right, stopping at the first true.
PullRest(rgrs, i, zp, w) ==
  IF i > Len(rgrs) THEN [any |-> FALSE, rgrs |-> rgrs, zp |-> zp, w |-> w]
  ELSE PullNext(rgrs, i, Invoke(rgrs[i], <<ZipSet(zp, i + 1)>>, w))

zipPulled(fr, dst, x) ==
  IF x.any
    THEN SR(FALSE,
            <<[fr EXCEPT !.zp = x.zp, !.rgrs = x.rgrs, !.finished = TRUE]>> \o dst, x.w)
    ELSE zipDeliver([fr EXCEPT !.zp = x.zp, !.rgrs = x.rgrs], dst, x.w)

\* __lambda_246_16: zip's outer lambda.
zipSink(fr, dst, p, w) ==
  zipPulled(fr, dst, PullRest(fr.rgrs, 1, [fr.zp EXCEPT !.ps[1] = p], w))

\* join whose lambda does not keep the sub-ranger that was stopped.
joinSub_forget(fr, x) == SR(x.ret, <<fr>> \o x.sink, x.w)

joinSub(fr, x) ==
  IF ~x.ret
    THEN SR(FALSE, <<[fr EXCEPT !.osrgr = <<x.r>>]>> \o x.sink, x.w)
    ELSE SR(TRUE, <<fr>> \o x.sink, x.w)

joinAdapted(fr, dst, d) == joinSub(fr, Invoke(Adapt(fr.adapt, d.v), dst, d.w))

\* join's lambda: auto srgr = Adaption::adapt(*p);
\* if (!srgr(dst)) { osrgr.emplace(std::move(srgr)); return false; } else return true;
joinSink(fr, dst, p, w) == joinAdapted(fr, dst, Deref(p, w))

\* A call of a sink: of the closure on top of the stack, dst being the rest.
CallSink(sink, p, w) ==
  CASE sink[1].t = "out" -> outSink(sink[1], Tail(sink), p, w)
    [] sink[1].t = "once" -> onceSink(sink[1], Tail(sink), p, w)
    [] sink[1].t = "accumulate" -> accumulateSink(sink[1], Tail(sink), p, w)
    [] sink[1].t = "partial_sum" -> partial_sumSink(sink[1], Tail(sink), p, w)
    [] sink[1].t = "filter" -> filterSink(sink[1], Tail(sink), p, w)
    [] sink[1].t = "transform" -> transformSink(sink[1], Tail(sink), p, w)
    [] sink[1].t = "take" -> takeSink(sink[1], Tail(sink), p, w)
    [] sink[1].t = "ufirst" -> uniqueFirstSink(sink[1], Tail(sink), p, w)
    [] sink[1].t = "unique" -> uniqueSink(sink[1], Tail(sink), p, w)
    [] sink[1].t = "zset" -> zipSetSink(sink[1], Tail(sink), p, w)
    [] sink[1].t = "zip2" -> zip2Sink(sink[1], Tail(sink), p, w)
    [] sink[1].t = "zip" -> zipSink(sink[1], Tail(sink), p, w)
    [] sink[1].t = "join" -> joinSink(sink[1], Tail(sink), p, w)

\* ------------------------------------------------------- the closures
\* all with the stopped-at position saved instead of the one after it.
AllNext_resave(r, it, x) ==
  IF ~x.ret
    THEN RR(FALSE, [r EXCEPT !.first = it], x.sink, x.w)
    ELSE AllLoop(r, it + 1, x.sink, x.w)

AllNext(r, it, x) ==
  IF ~x.ret
    THEN RR(FALSE, [r EXCEPT !.first = it + 1], x.sink, x.w)
    ELSE AllLoop(r, it + 1, x.sink, x.w)

\* The loop of all (and of the skip variants) from iterator it on:
\* while (it != last) if (!dst(it++)) { first = it; return false; } return true;
\* Walking past end() is the undefined behaviour of a source shorter than the
\* skip variants assume; it is recorded in w.ub.
AllLoop(r, it, sink, w) ==
  IF it = r.last THEN RR(TRUE, r, sink, w)
  ELSE IF it > Len(SrcSeq(w.mem, r.src))
    THEN RR(TRUE, r, sink, [w EXCEPT !.ub = TRUE])
  ELSE AllNext(r, it, CallSink(sink, PosCursor(r.src, it), w))

allDone(r, x) == [x EXCEPT !.r.re = r.re \/ r.exh, !.r.exh = r.exh \/ x.ret]

\* auto it = first; the loop.
allInvoke(r, sink, w) == allDone(r, AllLoop(r, r.first, sink, w))

\* The implicit copy constructor of all_copy copies member by member: rng
\* into a new buffer k, and rgr, whose iterators keep pointing where they did.
all_copyCopied(r, k) == [r EXCEPT !.rng = k]

RECURSIVE CopyOf(_, _)
CopyIn(r, x) == [r |-> [r EXCEPT !.rgr = x.r], mem |-> x.mem]

\* A copy of a ranger value and the heap after it; the copy of a closure
\* copies what it captured.
CopyOf(r, mem) ==
  IF r.op = "all_copy"
    THEN [r |-> all_copyCopied(r, Len(mem.H) + 1),
          mem |-> [mem EXCEPT !.H = Append(@, @[r.rng]), !.live = @ \cup {Len(mem.H) + 1}]]
    ELSE CopyIn(r, CopyOf(r.rgr, mem))

\* The buffer owned by a ranger value (by the all_copy within it).
RECURSIVE OwnedBuf(_)
OwnedBuf(r) == IF r.op = "all_copy" THEN r.rng ELSE OwnedBuf(r.rgr)

\* The destructor of a ranger value frees the buffer it owns; the freed
\* memory keeps its contents or is overwritten.
Destroyed(r, mem, scribble) ==
  [mem EXCEPT !.live = @ \ {OwnedBuf(r)},
              !.H[OwnedBuf(r)] = IF scribble THEN [i \in DOMAIN @ |-> Garbage] ELSE @]

\* all_copy::operator(): return rgr(p).
all_copyInvoked(r, x) == RR(x.ret, [r EXCEPT !.rgr = x.r], x.sink, x.w)

all_copyInvoke(r, sink, w) == all_copyInvoked(r, Invoke(r.rgr, sink, w))

filterInvoke(r, sink, w) ==
  Over(r, Invoke(r.rgr, <<[t |-> "filter", pred |-> r.pred]>> \o sink, w))

transformInvoke(r, sink, w) ==
  Over(r, Invoke(r.rgr, <<[t |-> "transform", f |-> r.f]>> \o sink, w))

\* take forgetting the count between invocations.
takeOr_reset(r, x) ==
  RR(x.ret \/ (x.sink[1].n = 0), [r EXCEPT !.rgr = x.r], Tail(x.sink), x.w)

takeOr(r, x) ==
  RR(x.ret \/ (x.sink[1].n = 0), [r EXCEPT !.rgr = x.r, !.n = x.sink[1].n],
     Tail(x.sink), x.w)

\* take without the test of n before upstream is invoked.
takeInvoke_noTest(r, sink, w) ==
  takeOr(r, Invoke(r.rgr, <<[t |-> "take", n |-> r.n]>> \o sink, w))

\* if (n) return rgr(lambda) || (n == 0); else return true;
takeInvoke(r, sink, w) ==
  IF r.n # 0
    THEN takeOr(r, Invoke(r.rgr, <<[t |-> "take", n |-> r.n]>> \o sink, w))
    ELSE RR(TRUE, r, sink, w)

\* return next(dst);
concatNext(r, y) == RR(y.ret, [r EXCEPT !.next = y.r], y.sink, y.w)

\* if (!(cont = rgr(dst))) return false;
\* concat not remembering that its first ranger is exhausted.
concatFirst_restart(r, x) ==
  IF ~x.ret
    THEN RR(FALSE, [r EXCEPT !.rgr = x.r, !.cont = FALSE], x.sink, x.w)
    ELSE concatNext([r EXCEPT !.rgr = x.r], Invoke(r.next, x.sink, x.w))

concatFirst(r, x) ==
  IF ~x.ret
    THEN RR(FALSE, [r EXCEPT !.rgr = x.r, !.cont = FALSE], x.sink, x.w)
    ELSE concatNext([r EXCEPT !.rgr = x.r, !.cont = TRUE], Invoke(r.next, x.sink, x.w))

\* if (!cont) { if (!(cont = rgr(dst))) return false; } return next(dst);
concatInvoke(r, sink, w) ==
  IF ~r.cont
    THEN concatFirst(r, Invoke(r.rgr, sink, w))
    ELSE concatNext(r, Invoke(r.next, sink, w))

uniqueDone(r, x) ==
  RR(x.ret, [r EXCEPT !.rgr = x.r, !.p = x.sink[1].p], Tail(x.sink), x.w)

\* unique whose second lambda starts without the last delivered element.
uniqueRest_noPrev(r, sink, w) ==
  uniqueDone(r, Invoke(r.rgr, <<[t |-> "unique", prev |-> NullCursor, p |-> r.p]>> \o sink, w))

\* return rgr([&, prev = p](const auto &q) {...});
uniqueRest(r, sink, w) ==
  uniqueDone(r, Invoke(r.rgr, <<[t |-> "unique", prev |-> r.p, p |-> r.p]>> \o sink, w))

\* if (!dst(p)) return false;
uniqueFirst(r, y) ==
  IF ~y.ret THEN RR(FALSE, r, y.sink, y.w) ELSE uniqueRest(r, y.sink, y.w)

\* start = false; if (rgr(first lambda)) return true;
uniqueStart(r, sink, x) ==
  IF x.ret
    THEN RR(TRUE, [r EXCEPT !.start = FALSE, !.rgr = x.r, !.p = x.sink[1].p], sink, x.w)
    ELSE uniqueFirst([r EXCEPT !.start = FALSE, !.rgr = x.r, !.p = x.sink[1].p],
                     CallSink(sink, x.sink[1].p, x.w))

uniqueInvoke(r, sink, w) ==
  IF r.start
    THEN uniqueStart(r, sink, Invoke(r.rgr, <<[t |-> "ufirst", p |-> r.p]>>, w))
    ELSE uniqueRest(r, sink, w)

\* zip2 that reports the stop it made itself on an exhausted second input.
zip2Done_noFinished(r, x) ==
  RR(x.ret,
     [r EXCEPT !.rgr1 = x.r, !.rgr2 = x.sink[1].rgr2, !.zp = x.sink[1].zp],
     Tail(x.sink), x.w)

zip2Done(r, x) ==
  RR(x.ret \/ x.sink[1].finished,
     [r EXCEPT !.rgr1 = x.r, !.rgr2 = x.sink[1].rgr2, !.zp = x.sink[1].zp],
     Tail(x.sink), x.w)

\* bool finished = false; return rgr1(lambda) || finished;
zip2Invoke(r, sink, w) ==
  zip2Done(r, Invoke(r.rgr1,
                     <<[t |-> "zip2", zp |-> r.zp, rgr2 |-> r.rgr2, finished |-> FALSE]>>
                       \o sink, w))

zipDone(r, x) ==
  RR(x.ret \/ x.sink[1].finished,
     [r EXCEPT !.rgr = x.r, !.rgrs = x.sink[1].rgrs, !.zp = x.sink[1].zp],
     Tail(x.sink), x.w)

\* __lambda_244_25: bool finished = false; return rgr(__lambda_246_16{...}) || finished;
zipInvoke(r, sink, w) ==
  zipDone(r, Invoke(r.rgr,
                    <<[t |-> "zip", zp |-> r.zp, rgrs |-> r.rgrs, finished |-> FALSE]>>
                      \o sink, w))

joinDone(r, x) ==
  RR(x.ret, [r EXCEPT !.rgr = x.r, !.osrgr = x.sink[1].osrgr], Tail(x.sink), x.w)

\* return rgr(lambda);
joinOuter(r, sink, w) ==
  joinDone(r, Invoke(r.rgr, <<[t |-> "join", adapt |-> r.adapt, osrgr |-> r.osrgr]>>
                              \o sink, w))

\* if (!(*osrgr)(dst)) return false;
joinResumed(r, x) ==
  IF ~x.ret
    THEN RR(FALSE, [r EXCEPT !.osrgr = <<x.r>>], x.sink, x.w)
    ELSE joinOuter([r EXCEPT !.osrgr = <<x.r>>], x.sink, x.w)

joinInvoke(r, sink, w) ==
  IF Len(r.osrgr) > 0
    THEN joinResumed(r, Invoke(r.osrgr[1], sink, w))
    ELSE joinOuter(r, sink, w)

\* One call rgr(dst) of a ranger: [ret, r, sink, w], what it returns, the
\* ranger after the call, the sink after the call and the world after it.
Invoke(r, sink, w) ==
  CASE r.op = "all" -> allInvoke(r, sink, w)
    [] r.op = "filter" -> filterInvoke(r, sink, w)
    [] r.op = "transform" -> transformInvoke(r, sink, w)
    [] r.op = "take" -> takeInvoke(r, sink, w)
    [] r.op = "concat" -> concatInvoke(r, sink, w)
    [] r.op = "unique" -> uniqueInvoke(r, sink, w)
    [] r.op = "zip2" -> zip2Invoke(r, sink, w)
    [] r.op = "zip" -> zipInvoke(r, sink, w)
    [] r.op = "join" -> joinInvoke(r, sink, w)
    [] r.op = "all_copy" -> all_copyInvoke(r, sink, w)

\* ------------------------------------------------------ terminal algorithms
\* accumulate(rgr, init): rgr is taken by value, so only the result and the world
\* come back; r is the state the parameter was in when the call returned.
Folded(x) == [val |-> x.sink[1].init, w |-> x.w, r |-> x.r]

\* A parameter of type Ranger passed by reference.
ByValue_ref(r, after) == after

\* What the caller's ranger r is after it was passed to a parameter of type
\* Ranger, taken by value (accumulate, partial_sum, and every combinator):
\* the parameter is a copy, left in the state after.
ByValue(r, after) == r

accumulate(r, init, w) == Folded(Invoke(r, <<[t |-> "accumulate", init |-> init]>>, w))

\* partial_sum(rgr, init), rgr by value as well.
partial_sum(r, init, w) == Folded(Invoke(r, <<[t |-> "partial_sum", init |-> init]>>, w))

\* ------------------------------------------------------------ the scenarios
\* A scenario: the pipeline a caller builds over the sources A and B, the
\* count n given to take, the predicate given to filter and the number nd of
\* dereferences the caller's sink performs on each cursor it is given.
Case(kind, A, B, n, pred, nd) ==
  [kind |-> kind, A |-> A, B |-> B, n |-> n, pred |-> pred, nd |-> nd]

Srcs(m) == UNION {[1..k -> Vals] : k \in 0..m}
Iota(k) == [i \in 1..k |-> i]
Iotas(m) == {Iota(k) : k \in 0..m}
Preds == {"is_odd", "is_even"}

Build(c) ==
  LET a == all("A", Len(c.A))
      b == all("B", Len(c.B))
  IN CASE c.kind = "all" -> a
       [] c.kind = "filter" -> filter(c.pred, a)
       [] c.kind = "take" -> take(c.n, a)
       [] c.kind = "unique" -> unique(a)
       [] c.kind = "concat" -> concat(a, b)
       [] c.kind = "concat3" -> concat(a, concat(b, a))
       [] c.kind = "zip2" -> zip2(a, b)
       [] c.kind = "zip2f" -> zip2(a, filter(c.pred, b))
       [] c.kind = "zip" -> zip(a, <<b>>)
       [] c.kind = "zipf" -> zip(a, <<filter(c.pred, b)>>)
       [] c.kind = "sumzipf" -> transform([name |-> "sum"], zip(a, <<filter(c.pred, b)>>))
       [] c.kind = "zip3" -> zip(filter(c.pred, a), <<b, a>>)
       [] c.kind = "sumzip2" -> transform([name |-> "sum"], zip2(a, filter(c.pred, b)))
       [] c.kind = "skip_first" -> skip_first("A", Len(c.A))
       [] c.kind = "skip_last" -> skip_last("A", Len(c.A))
       [] c.kind = "skip_both" -> skip_both("A", Len(c.A))
       [] c.kind = "enumerate" -> enumerate(1, a)
       [] c.kind = "filter_enumerate" -> filter("snd_odd", enumerate(1, a))
       [] c.kind = "sum_enumerate" ->
            transform([name |-> "sum"], enumerate(1, filter(c.pred, a)))
       [] c.kind = "take_x3" -> take(c.n, transform([name |-> "x3"], a))
       [] c.kind = "concat_take" -> concat(take(c.n, a), b)
       [] c.kind = "unique_take" -> unique(take(c.n, a))
       [] c.kind = "zip_take" -> zip(a, <<take(c.n, b)>>)
       [] c.kind = "ranger_join" -> ranger_join(all("R", 3))
       [] c.kind = "join" ->
            join("identity_adaption", transform([name |-> "unique_adaptor"], all("R", 3)))
       [] c.kind = "unique_join" -> unique(ranger_join(all("R", 3)))
       [] c.kind = "x3" -> transform([name |-> "x3"], a)
       [] c.kind = "x3x3" -> transform([name |-> "x3"], transform([name |-> "x3"], a))
       [] c.kind = "x3_filter" -> transform([name |-> "x3"], filter(c.pred, a))
       [] c.kind = "test2" ->
            transform([name |-> "x3"], filter("is_even", take(c.n, concat(a, a))))

\* The scenarios whose cursors dereference to int, and those whose cursors are
\* iterators into a source that is not const.
IntKinds ==
  {"all", "filter", "take", "unique", "concat", "concat3", "sumzip2",
   "skip_first", "skip_last", "skip_both", "sum_enumerate", "take_x3",
   "concat_take", "unique_take", "ranger_join", "join", "unique_join", "test2",
   "x3", "x3x3", "x3_filter", "sumzipf"}
WritableKinds ==
  {"all", "filter", "take", "unique", "concat", "concat3",
   "skip_first", "skip_last", "skip_both", "concat_take", "unique_take",
   "ranger_join", "join", "unique_join"}

\* No scenario has more than 3 * MaxLen elements to deliver, one invocation
\* each when the sink stops at every call.
MaxInv == 3 * MaxLen + 1 + MaxAgain

\* The sources of a scenario: the vectors A and B, and the vector of vectors
\* R = {A, B, A}.
Mem0(c) == [A |-> c.A, B |-> c.B, R |-> <<c.A, c.B, c.A>>]

VARIABLES
  cfg,    \* the scenario
  rgr,    \* the ranger value the caller holds
  mem,    \* the sources' storage
  fst,    \* the state of the function objects held by rgr (enumerate's index)
  log,    \* every call the caller's sinks received, over the ranger's lifetime
  last,   \* the last invocation: what it returned and what its sink saw
  done,   \* the first invocation that returned true, and Len(log) after it
  ninv,   \* the number of invocations so far
  res,    \* the last terminal algorithm run: its arguments and result
  ub      \* undefined behaviour has happened

vars == <<cfg, rgr, mem, fst, log, last, done, ninv, res, ub>>

World == [mem |-> mem, fst |-> fst, log |-> <<>>, ub |-> FALSE, fcalls |-> 0]

NoLast ==
  [ret |-> FALSE, calls |-> 0, stopped |-> FALSE, late |-> FALSE, fcalls |-> 0]
NoRes == [op |-> "none", init |-> 0, val |-> 0, fresh |-> FALSE]

InitOf(cases) ==
  /\ cfg \in cases
  /\ rgr = Build(cfg)
  /\ mem = Mem0(cfg)
  /\ fst = <<0>>
  /\ log = <<>>
  /\ last = NoLast
  /\ done = [at |-> 0, len |-> 0]
  /\ ninv = 0
  /\ res = NoRes
  /\ ub = FALSE

Fresh == mem = Mem0(cfg)

Called(x) ==
  /\ rgr' = x.r
  /\ mem' = x.w.mem
  /\ fst' = x.w.fst
  /\ log' = log \o x.w.log
  /\ last' = [ret |-> x.ret, calls |-> x.sink[1].calls, stopped |-> x.sink[1].stopped,
              late |-> x.sink[1].late, fcalls |-> x.w.fcalls]
  /\ done' = IF done.at = 0 /\ x.ret
               THEN [at |-> ninv + 1, len |-> Len(log) + Len(x.w.log)]
               ELSE done
  /\ ub' = (ub \/ x.w.ub)

\* The caller invokes the ranger with a fresh sink that stops at its stopAt-th
\* call (0: never).
Call(stopAt) ==
  /\ ninv < MaxInv
  /\ done.at = 0 \/ ninv < done.at + MaxAgain
  /\ res.op = "none"
  /\ Called(Invoke(rgr, <<OutSink(stopAt, cfg.nd)>>, World))
  /\ ninv' = ninv + 1
  /\ UNCHANGED <<cfg, res>>

Accumulated(init, x) ==
  /\ rgr' = ByValue(rgr, x.r)
  /\ res' = [op |-> "accumulate", init |-> init, val |-> x.val,
             fresh |-> (ninv = 0 /\ Fresh)]
  /\ ub' = (ub \/ x.w.ub)

\* The caller passes the ranger to accumulate (a scenario ends with one
\* terminal algorithm).
Accumulate(init) ==
  /\ cfg.kind \in IntKinds
  /\ res.op # "partial_sum"
  /\ Accumulated(init, accumulate(rgr, init, World))
  /\ UNCHANGED <<cfg, mem, fst, log, last, done, ninv>>

PartialSummed(init, x) ==
  /\ rgr' = ByValue(rgr, x.r)
  /\ res' = [op |-> "partial_sum", init |-> init, val |-> x.val, fresh |-> (ninv = 0)]
  /\ mem' = x.w.mem
  /\ ub' = (ub \/ x.w.ub)

\* The caller passes the ranger to partial_sum, once.
PartialSum(init) ==
  /\ cfg.kind \in WritableKinds
  /\ Fresh
  /\ PartialSummed(init, partial_sum(rgr, init, World))
  /\ UNCHANGED <<cfg, fst, log, last, done, ninv>>

Stops == 0..MaxLen

\* What the caller does with a ranger: invoke it, or hand it to a terminal
\* algorithm.
Next ==
  \/ \E stopAt \in Stops : Call(stopAt)
  \/ \E init \in Inits : Accumulate(init)
  \/ \E init \in Inits : PartialSum(init)

\* The same for pipelines whose cursors cannot be written through.
NextConst ==
  \/ \E stopAt \in Stops : Call(stopAt)
  \/ \E init \in Inits : Accumulate(init)

CasesOf(kinds, As, Bs, ns, preds, nds) ==
  {Case(kind, A, B, n, pred, nd) :
     kind \in kinds, A \in As, B \in Bs, n \in ns, pred \in preds, nd \in nds}

Srcs2(m) == UNION {[1..k -> {1, 2}] : k \in 0..m}

\* The vectors of the tests.
Test1234 == <<1, 2, 3, 4>>
Test0123 == <<0, 1, 2, 3>>

\* -------------------------------------------------- source adaptation: all
AllCases == CasesOf({"all"}, Srcs(MaxLen), {<<>>}, {0}, {"none"}, {1})
InitAll == InitOf(AllCases)
SpecAll == InitAll /\ [][Next]_vars

\* ------------------------------------------------------------------ filter
FilterCases ==
  CasesOf({"filter"}, Srcs(MaxLen) \cup {Test1234}, {<<>>}, {0}, Preds, {1})
InitFilter == InitOf(FilterCases)
SpecFilter == InitFilter /\ [][Next]_vars

\* -------------------------------------------------------------------- take
TakeCases == CasesOf({"take"}, Srcs(MaxLen), {<<>>}, 0..MaxTake, {"none"}, {1})
InitTake == InitOf(TakeCases)
SpecTake == InitTake /\ [][Next]_vars

\* ------------------------------------------------------------------ unique
UniqueCases == CasesOf({"unique"}, Srcs(MaxLen), {<<>>}, {0}, {"none"}, {1})
InitUnique == InitOf(UniqueCases)
SpecUnique == InitUnique /\ [][Next]_vars

\* ------------------------------------------------------------------ concat
ConcatCases ==
  CasesOf({"concat", "concat3"}, Iotas(MaxLen), Iotas(MaxLen), {0}, {"none"}, {1})
InitConcat == InitOf(ConcatCases)
SpecConcat == InitConcat /\ [][Next]_vars

\* ------------------------------------------------------------ zip and zip2
ZipCases ==
  CasesOf({"zip2", "zip"}, Iotas(MaxLen), Srcs2(MaxLen), {0}, {"none"}, {1})
    \cup CasesOf({"zip2f", "zip3", "sumzip2"}, Iotas(MaxLen), Srcs2(MaxLen), {0},
                 Preds, {1})
    \cup CasesOf({"zip2f", "sumzip2", "zipf", "sumzipf"}, {Test0123}, {Test1234}, {0},
                 {"is_odd"}, {1})
InitZip == InitOf(ZipCases)
SpecZip == InitZip /\ [][NextConst]_vars

\* ----------------------------------- skip_first, skip_last and skip_both
\* The variants step over the first or the last element without checking
\* that there is one: the sources have at least two elements.
SkipSrcs == {S \in Srcs(MaxLen) \cup {Test1234} : Len(S) >= 2}
SkipCases ==
  CasesOf({"skip_first", "skip_last", "skip_both"}, SkipSrcs, {<<>>}, {0},
          {"none"}, {1})
InitSkip == InitOf(SkipCases)

\* The caller of the tests starts partial_sum from the element skipped.
NextSkip ==
  \/ \E stopAt \in Stops : Call(stopAt)
  \/ \E init \in Inits : Accumulate(init)
  \/ \E init \in Inits \cup {cfg.A[1]} : PartialSum(init)
SpecSkip == InitSkip /\ [][NextSkip]_vars

\* --------------------------------------------------------------- enumerate
Derefs == 0..2
EnumerateCases ==
  CasesOf({"enumerate"}, Srcs(MaxLen), {<<>>}, {0}, {"none"}, Derefs)
    \cup CasesOf({"filter_enumerate"}, Srcs(MaxLen), {<<>>}, {0}, {"none"}, {1})
    \cup CasesOf({"sum_enumerate"}, Srcs(MaxLen), {<<>>}, {0}, Preds, {1})
InitEnumerate == InitOf(EnumerateCases)
SpecEnumerate == InitEnumerate /\ [][NextConst]_vars

\* -------------------------------------------------------------- accumulate
\* test2 of the benchmarks, and pipelines that end before their sources do.
FoldCases ==
  CasesOf({"test2"}, Srcs2(MaxLen), {<<>>}, 0..(2 * MaxLen + 1), {"none"}, {1})
    \cup CasesOf({"take", "unique_take"}, Srcs2(MaxLen), {<<>>}, 0..MaxTake, {"none"}, {1})
    \cup CasesOf({"sumzip2"}, Iotas(MaxLen), Srcs2(MaxLen), {0}, Preds, {1})
InitFold == InitOf(FoldCases)
SpecFold == InitFold /\ [][NextConst]_vars

\* test2_handwritten: the loop of f from element i on, m elements left to
\* take, and f run twice.
RECURSIVE test2_f(_, _, _, _)
test2_f(R, i, m, acc) ==
  IF m = 0 \/ i > Len(R) THEN [m |-> m, res |-> acc]
  ELSE test2_f(R, i + 1, m - 1,
               IF ApplyPred("is_even", R[i]) THEN acc + 3 * R[i] ELSE acc)

test2_handwritten(R, n) == test2_f(R, 1, test2_f(R, 1, n, 0).m, test2_f(R, 1, n, 0).res).res

\* --------------------------------------------------------------- transform
\* transform over all, over itself, under take and over filter, with sinks
\* that dereference each cursor they are given 0, 1 or 2 times.
TransformKinds == {"x3", "x3x3", "take_x3", "x3_filter"}
TransformCases ==
  CasesOf({"x3", "x3x3"}, Srcs(MaxLen), {<<>>}, {0}, {"none"}, Derefs)
    \cup CasesOf({"take_x3"}, Srcs2(MaxLen), {<<>>}, 0..MaxTake, {"none"}, Derefs)
    \cup CasesOf({"x3_filter"}, Srcs2(MaxLen), {<<>>}, {0}, Preds, Derefs)
InitTransform == InitOf(TransformCases)
SpecTransform == InitTransform /\ [][NextConst]_vars

\* ------------------------------------------------------ rangers as values
\* TEST_CASE all: rng = filter(is_odd, all(S)) is held in a variable, handed
\* to accumulate, and may be handed on to a combinator as well.
ValueCases ==
  CasesOf({"all", "unique"}, Srcs2(MaxLen), {<<>>}, {0}, {"none"}, {1})
    \cup CasesOf({"filter"}, Srcs2(MaxLen) \cup {Test1234}, {<<>>}, {0}, Preds, {1})
    \cup CasesOf({"take"}, Srcs2(MaxLen), {<<>>}, 0..MaxTake, {"none"}, {1})
InitValue == InitOf(ValueCases)

Composed(x) ==
  /\ rgr' = ByValue(rgr, x.r.rgr)
  /\ res' = [op |-> "compose", init |-> 0, val |-> Len(x.w.log), fresh |-> FALSE]
  /\ ub' = (ub \/ x.w.ub)

\* The caller builds filter(pred, rgr) from the ranger it holds and invokes
\* the composite once; val is the number of cursors the composite delivered.
Compose(pred, stopAt) ==
  /\ res.op # "partial_sum"
  /\ Composed(Invoke(filter(pred, rgr), <<OutSink(stopAt, 1)>>, World))
  /\ UNCHANGED <<cfg, mem, fst, log, last, done, ninv>>

NextValue ==
  \/ \E stopAt \in Stops : Call(stopAt)
  \/ \E init \in Inits : Accumulate(init)
  \/ \E init \in Inits : PartialSum(init)
  \/ \E pred \in Preds, stopAt \in Stops : Compose(pred, stopAt)

SpecValue == InitValue /\ [][NextValue]_vars

\* -------------------------------------------------------------------- join
\* test5 of the benchmarks: join over a vector of vectors, R = <<A, B, A>>,
\* with all_adaption (ranger_join) and over unique_adaptor's rangers.
JoinKinds == {"ranger_join", "join"}
JoinCases == CasesOf(JoinKinds, Srcs2(MaxLen), Iotas(MaxLen - 1), {0}, {"none"}, {1})
InitJoin == InitOf(JoinCases)

\* The caller folds the ranger as built (test5_transrangers).
AccumulateFresh(init) ==
  /\ ninv = 0
  /\ Accumulate(init)

NextJoin ==
  \/ \E stopAt \in Stops : Call(stopAt)
  \/ \E init \in Inits : AccumulateFresh(init)

SpecJoin == InitJoin /\ [][NextJoin]_vars

\* -------------------------------------------------------- unique over join
\* test4 of the benchmarks: unique(ranger_join(all(R))), R = <<A, B, A>>.
UniqueJoinCases ==
  CasesOf({"unique_join"}, Srcs2(MaxLen), Srcs2(MaxLen - 1), {0}, {"none"}, {1})
InitUniqueJoin == InitOf(UniqueJoinCases)
SpecUniqueJoin == InitUniqueJoin /\ [][NextJoin]_vars

\* ---------------------------------------------------------------- all_copy
\* A ranger that owns its source, made from a temporary vector and then
\* copied, moved or passed to filter; cfg.made is how the value held was made.
MaxMade == 2
CopyKinds == {"all_copy", "skip_first_copy"}
CopyCases ==
  {[kind |-> kind, A |-> A, B |-> <<>>, n |-> 0, pred |-> "none", nd |-> 1, made |-> <<>>] :
     kind \in CopyKinds, A \in Srcs2(MaxLen) \ {<<>>}}

InitCopy ==
  /\ cfg \in CopyCases
  /\ rgr = IF cfg.kind = "all_copy" THEN all_copy(1, Len(cfg.A))
                                   ELSE skip_first_copy(1, Len(cfg.A))
  /\ mem = [H |-> <<cfg.A>>, live |-> {1}]
  /\ fst = <<0>>
  /\ log = <<>>
  /\ last = NoLast
  /\ done = [at |-> 0, len |-> 0]
  /\ ninv = 0
  /\ res = NoRes
  /\ ub = FALSE

Made(how) ==
  /\ Len(cfg.made) < MaxMade
  /\ cfg' = [cfg EXCEPT !.made = Append(@, how)]
  /\ UNCHANGED <<fst, log, last, done, ninv, res, ub>>

CopyConstructed(x, destroy, scribble) ==
  /\ rgr' = x.r
  /\ mem' = IF destroy THEN Destroyed(rgr, x.mem, scribble) ELSE x.mem

\* auto c = r; the program goes on with c, and r stays or is destroyed.
CopyConstruct(destroy, scribble) ==
  /\ Made("copy")
  /\ destroy \/ ~scribble
  /\ CopyConstructed(CopyOf(rgr, mem), destroy, scribble)

\* auto m = std::move(r); the vector's move constructor hands the buffer
\* over, and the iterators of rgr are copied.  r is left empty.
MoveConstruct ==
  /\ Made("move")
  /\ UNCHANGED <<rgr, mem>>

FilterMade(pred, x, scribble) ==
  /\ rgr' = filter(pred, x.r)
  /\ mem' = Destroyed(rgr, x.mem, scribble)

\* filter(pred, std::move(r)), or filter(pred, <temporary>): the parameter rgr
\* is made by move, the lambda captures it by copy ([=]), and the parameter
\* is destroyed when filter returns.
FilterOver(pred, scribble) ==
  /\ Made("filter")
  /\ FilterMade(pred, CopyOf(rgr, mem), scribble)

NextCopy ==
  \/ \E stopAt \in Stops : Call(stopAt)
  \/ \E destroy, scribble \in BOOLEAN : CopyConstruct(destroy, scribble)
  \/ MoveConstruct
  \/ \E pred \in Preds, scribble \in BOOLEAN : FilterOver(pred, scribble)

SpecCopy == InitCopy /\ [][NextCopy]_vars

\* ------------------------------------------------ pipelines of every kind
Kinds1 == {"all", "unique", "ranger_join", "join", "unique_join"}
KindsN == {"take", "take_x3", "unique_take"}
KindsP == {"filter", "sum_enumerate"}
KindsB == {"concat", "zip2", "zip"}
KindsNB == {"concat_take", "zip_take"}
KindsPB == {"zip2f", "zip3", "sumzip2"}
Cases ==
  CasesOf(Kinds1, Srcs2(MaxLen), {<<>>, <<2, 2>>}, {0}, {"none"}, {1})
    \cup CasesOf(KindsN, Srcs2(MaxLen), {<<>>}, 0..MaxTake, {"none"}, {1})
    \cup CasesOf(KindsP, Srcs2(MaxLen), {<<>>}, {0}, Preds, {1})
    \cup CasesOf(KindsB, Iotas(MaxLen), Iotas(MaxLen), {0}, {"none"}, {1})
    \cup CasesOf(KindsNB, Iotas(MaxLen), Iotas(MaxLen), 0..MaxTake, {"none"}, {1})
    \cup CasesOf(KindsPB, Iotas(MaxLen), Iotas(MaxLen), {0}, Preds, {1})
    \cup CasesOf({"enumerate", "filter_enumerate"}, Srcs2(MaxLen), {<<>>}, {0},
                 {"none"}, {1})
Init == InitOf(Cases)
Spec == Init /\ [][Next]_vars

\* A caller that goes on invoking its ranger, as a loop over it does.
\* A ranger can always be invoked: what keeps Call from happening is only
\* the bounds on the invocations and a terminal algorithm having run.  The
\* caller's loop is fair to the invocation it may make.
NextInvoke == \E stopAt \in Stops : Call(stopAt)
CanCall ==
  /\ ninv < MaxInv
  /\ done.at = 0 \/ ninv < done.at + MaxAgain
  /\ res.op = "none"
Invocation == CanCall /\ ninv' = ninv + 1
SpecInvoke == Init /\ [][NextInvoke]_vars /\ WF_ninv(Invocation)

\* ------------------------------------------------------------ any sinks
\* The caller invokes the ranger with a sink that goes on returning true
\* after the one call at which it returned false.
CallOnce(stopAt) ==
  /\ CanCall
  /\ Called(Invoke(rgr, <<OnceSink(stopAt, cfg.nd)>>, World))
  /\ ninv' = ninv + 1
  /\ UNCHANGED <<cfg, res>>

NextAnySink ==
  \/ \E stopAt \in Stops : Call(stopAt)
  \/ \E stopAt \in Stops \ {0} : CallOnce(stopAt)

SpecAnySink == Init /\ [][NextAnySink]_vars

\* ----------------------------------------------------------- zip and zip2
\* test6 of the benchmarks: zip over two rangers, which zip2 takes as well;
\* the second input is all, filter over all, or take over all.
ZipEqCases ==
  CasesOf({"zip"}, Iotas(MaxLen), Srcs2(MaxLen), {0}, {"none"}, {1})
    \cup CasesOf({"zipf"}, Iotas(MaxLen), Srcs2(MaxLen), {0}, Preds, {1})
    \cup CasesOf({"zip_take"}, Iotas(MaxLen), Iotas(MaxLen), 0..MaxTake, {"none"}, {1})
InitZipEq == InitOf(ZipEqCases)
SpecZipEq == InitZipEq /\ [][NextInvoke]_vars

\* ------------------------------------------------------------- properties
\* The i-th call the caller's sinks received was made with the cursor at
\* position i of source src, which dereferenced to S[i].
RECURSIVE SumSeq(_)
SumSeq(s) == IF s = <<>> THEN 0 ELSE Head(s) + SumSeq(Tail(s))

\* s with each run of consecutive equal elements collapsed to one element.
RECURSIVE Collapse(_)
Collapse(s) ==
  IF Len(s) <= 1 THEN s
  ELSE IF s[1] = s[2] THEN Collapse(Tail(s))
  ELSE <<s[1]>> \o Collapse(Tail(s))

Min(a, b) == IF a <= b THEN a ELSE b

\* The calls the caller's sinks received up to the first invocation that
\* returned true (all of them while none has).
UpToDone == IF done.at = 0 THEN Len(log) ELSE done.len

\* What accumulate returned for the ranger as built, not yet invoked.
FreshSum == res.op = "accumulate" /\ res.fresh

DeliveredAt(i, src, j, S) ==
  /\ log[i].c = PosCursor(<<src>>, j)
  /\ log[i].v = <<S[j]>>

\* C2: for all(S) and any pattern of sink stops, the cursors delivered over
\* the invocations up to and including the first that returns true are the
\* positions of S in order, each once; after a stop the saved position is the
\* next unvisited one; and an invocation of the fresh ranger whose sink does
\* not stop delivers exactly len(S) cursors and returns true.
C2_AllResumes ==
  /\ done.at = 0 =>
       /\ Len(log) <= Len(cfg.A)
       /\ \A i \in 1..Len(log) : DeliveredAt(i, "A", i, cfg.A)
       /\ ninv > 0 => ~last.ret /\ last.stopped /\ rgr.first = Len(log) + 1
  /\ done.at # 0 =>
       /\ done.len = Len(cfg.A)
       /\ \A i \in 1..done.len : DeliveredAt(i, "A", i, cfg.A)
  /\ (ninv = 1 /\ ~last.stopped) => (last.ret /\ last.calls = Len(cfg.A))

\* Three stops, each resumed, and then exhaustion.
C2_Witness ==
  /\ cfg.kind = "all"
  /\ done.at = 4
  /\ ninv = 4
  /\ Len(log) = 3
  /\ last.ret

\* C1: an invocation returns false iff some call of its sink returned false
\* (and so returns true iff no sink call returned false, the remaining
\* elements having all been delivered).
C1_ReturnContract == ninv > 0 => (last.ret <=> ~last.stopped)

\* C3: accumulate(filter(P, all(S)), init) is init plus the sum of the
\* elements of S that satisfy P; [1,2,3,4] with is_odd and init 0 gives 4.
C3_FilterAccumulate ==
  (cfg.kind = "filter" /\ FreshSum) =>
    /\ res.val = res.init + SumSeq(SelectSeq(cfg.A, LAMBDA x : ApplyPred(cfg.pred, x)))
    /\ (cfg.A = Test1234 /\ cfg.pred = "is_odd" /\ res.init = 0) => res.val = 4

C3_Witness ==
  /\ cfg.kind = "filter"
  /\ cfg.A = Test1234
  /\ cfg.pred = "is_odd"
  /\ FreshSum
  /\ res.init = 0
  /\ res.val = 4

\* C4: take(n, all(S)), n >= 0, invoked until it returns true, under any
\* pattern of sink stops and so with a sink that stops at every element:
\* the elements delivered are the first min(n, len(S)) elements of S, in
\* order, each once.
C4_TakeResumes ==
  cfg.kind = "take" =>
    /\ UpToDone <= Min(cfg.n, Len(cfg.A))
    /\ \A i \in 1..UpToDone : DeliveredAt(i, "A", i, cfg.A)
    /\ done.at # 0 => done.len = Min(cfg.n, Len(cfg.A))

\* take(3, all(S)) over a source of at least three elements: three
\* invocations of one element each, of which the third, stopped
\* as well, returns true.
C4_Witness ==
  /\ cfg.kind = "take"
  /\ cfg.n = 3
  /\ Len(cfg.A) >= 3
  /\ ninv = 3
  /\ done.at = 3
  /\ Len(log) = 3
  /\ last.calls = 1
  /\ last.stopped

\* C5: accumulate(unique(all(S)), init) is init plus the sum of S with each
\* run of consecutive equal elements collapsed to its first element, for
\* every S, the empty, the single-element and the all-equal ones included.
C5_UniqueAccumulate ==
  (cfg.kind = "unique" /\ FreshSum) => res.val = res.init + SumSeq(Collapse(cfg.A))

\* A source with an all-equal run and a further run.
C5_Witness ==
  /\ cfg.kind = "unique"
  /\ Len(cfg.A) = 3
  /\ cfg.A[1] = cfg.A[2]
  /\ cfg.A[2] # cfg.A[3]
  /\ FreshSum
  /\ res.val = res.init + cfg.A[1] + cfg.A[3]

Filtered(S, pred) == SelectSeq(S, LAMBDA x : ApplyPred(pred, x))

\* What each input of the zip of a scenario delivers on its own.
ZipInputs(c) ==
  CASE c.kind \in {"zip2", "zip"} -> <<c.A, c.B>>
    [] c.kind \in {"zip2f", "sumzip2"} -> <<c.A, Filtered(c.B, c.pred)>>
    [] c.kind = "zip3" -> <<Filtered(c.A, c.pred), c.B, c.A>>

MinLen(ss) == CHOOSE m \in {Len(ss[j]) : j \in DOMAIN ss} : \A j \in DOMAIN ss : m <= Len(ss[j])

\* The tuple of the i-th elements of the inputs.
TupleAt(ss, i) == [j \in DOMAIN ss |-> ss[j][i]]

\* C6: zip and zip2 over inputs built from all and filter deliver, up to the
\* first invocation that returns true and under any pattern of sink stops,
\* m composites, m the least number of elements an input delivers on its
\* own, the i-th dereferencing to the tuple of the i-th elements of the
\* inputs; so zip(all(A), all(B)) yields (A[i], B[i]) for i < min(len(A),
\* len(B)); and the sum of the pair sums of
\* zip2(all([0,1,2,3]), filter(is_odd, all([1,2,3,4]))) from 0 is 5.
C6_ZipTuples ==
  /\ cfg.kind \in {"zip2", "zip", "zip2f", "zip3"} =>
       /\ UpToDone <= MinLen(ZipInputs(cfg))
       /\ \A i \in 1..UpToDone : log[i].v = <<TupleAt(ZipInputs(cfg), i)>>
       /\ done.at # 0 => done.len = MinLen(ZipInputs(cfg))
  /\ cfg.kind \in {"zip2", "zip"} =>
       \A i \in 1..UpToDone : log[i].v = <<<<cfg.A[i], cfg.B[i]>>>>
  /\ (cfg.kind = "sumzip2" /\ FreshSum) =>
       /\ res.val = res.init
            + SumSeq([i \in 1..MinLen(ZipInputs(cfg)) |->
                        SumSeq(TupleAt(ZipInputs(cfg), i))])
       /\ (cfg.A = Test0123 /\ cfg.B = Test1234 /\ cfg.pred = "is_odd" /\ res.init = 0)
            => res.val = 5

\* zip over a longer and a shorter source, stopped at each composite: the
\* third invocation finds the shorter input exhausted.
C6_Witness ==
  /\ cfg.kind = "zip"
  /\ Len(cfg.A) = 3
  /\ Len(cfg.B) = 2
  /\ done.at = 3
  /\ done.len = 2
  /\ ninv = 3
  /\ log[2].v = <<<<cfg.A[2], cfg.B[2]>>>>

\* The sources a concat scenario runs through, in the order of its rangers.
ConcatParts(c) == IF c.kind = "concat" THEN <<"A", "B">> ELSE <<"A", "B", "A">>

RECURSIVE Flat(_, _)
Flat(c, parts) ==
  IF parts = <<>> THEN <<>>
  ELSE [i \in 1..Len(c[Head(parts)]) |-> <<Head(parts), i>>] \o Flat(c, Tail(parts))

\* C7: concat over all(...) rangers, under any pattern of sink stops, delivers
\* up to the first invocation that returns true the elements of r1, then r2,
\* ..., then rk, in order, each once (a stop inside ri is resumed inside ri),
\* and a ranger other than the last is never invoked again once it has
\* reported exhaustion.
C7_ConcatOrder ==
  cfg.kind \in {"concat", "concat3"} =>
    /\ UpToDone <= Len(Flat(cfg, ConcatParts(cfg)))
    /\ \A i \in 1..UpToDone :
         DeliveredAt(i, Flat(cfg, ConcatParts(cfg))[i][1],
                     Flat(cfg, ConcatParts(cfg))[i][2],
                     cfg[Flat(cfg, ConcatParts(cfg))[i][1]])
    /\ done.at # 0 => done.len = Len(Flat(cfg, ConcatParts(cfg)))
    /\ ~rgr.rgr.re
    /\ cfg.kind = "concat3" => ~rgr.next.rgr.re

\* concat(all(A), all(B)) stopped at each of the two elements of A and at the
\* element of B: the third invocation finds A exhausted and goes on to B.
C7_Witness ==
  /\ cfg.kind = "concat"
  /\ Len(cfg.A) = 2
  /\ Len(cfg.B) = 1
  /\ ninv = 4
  /\ done.at = 4
  /\ done.len = 3
  /\ rgr.cont
  /\ rgr.rgr.exh
  /\ ~rgr.rgr.re

\* C8: for S of at least two elements partial_sum(skip_first(S), S[0])
\* returns the sum of S and leaves in S[i], i >= 1, the sum of the original
\* S[0..i], S[0] unchanged; [1,2,3,4] gives 10 and becomes [1,3,6,10].
C8_PartialSumSkipFirst ==
  (cfg.kind = "skip_first" /\ res.op = "partial_sum" /\ res.fresh
     /\ res.init = cfg.A[1]) =>
    /\ res.val = SumSeq(cfg.A)
    /\ mem.A = [i \in 1..Len(cfg.A) |->
                 IF i = 1 THEN cfg.A[1] ELSE SumSeq(SubSeq(cfg.A, 1, i))]
    /\ cfg.A = Test1234 => (res.val = 10 /\ mem.A = <<1, 3, 6, 10>>)

C8_Witness ==
  /\ cfg.kind = "skip_first"
  /\ cfg.A = Test1234
  /\ res.op = "partial_sum"
  /\ res.fresh
  /\ res.init = 1
  /\ res.val = 10
  /\ mem.A[4] = 10

\* The first and the last position (from 1) a skip variant delivers.
SkipLo(c) == IF c.kind = "skip_last" THEN 1 ELSE 2
SkipHi(c) == IF c.kind = "skip_first" THEN Len(c.A) ELSE Len(c.A) - 1

\* C9: over a source of n >= 2 elements and under any pattern of sink stops
\* skip_first delivers the positions 1..n-1 (from 0), skip_last 0..n-2 and
\* skip_both 1..n-2, in order, each once, and then returns true, without
\* ever leaving the source.
C9_SkipPositions ==
  cfg.kind \in {"skip_first", "skip_last", "skip_both"} =>
    /\ UpToDone <= SkipHi(cfg) - SkipLo(cfg) + 1
    /\ \A i \in 1..UpToDone : DeliveredAt(i, "A", SkipLo(cfg) + i - 1, cfg.A)
    /\ done.at # 0 => done.len = SkipHi(cfg) - SkipLo(cfg) + 1
    /\ (ninv > 0 /\ done.at = 0) => (~last.ret /\ last.stopped)
    /\ ~ub

\* skip_both over three elements, stopped at the middle one and invoked again.
C9_Witness ==
  /\ cfg.kind = "skip_both"
  /\ Len(cfg.A) = 3
  /\ done.at = 2
  /\ done.len = 1
  /\ log[1].c = PosCursor(<<"A">>, 2)

\* C10: the k-th element (from 0) enumerate(r) delivers is observed by every
\* dereference downstream as the pair (k, element): by each dereference the
\* caller's sink makes of a cursor of enumerate(all(S)), and through
\* filter(P, enumerate(all(S))), where the k-th element is S[k].
C10_EnumeratePairs ==
  /\ cfg.kind = "enumerate" =>
       \A i \in 1..Len(log) : \A d \in 1..Len(log[i].v) :
         log[i].v[d] = <<i - 1, cfg.A[log[i].c.p.i]>>
  /\ cfg.kind = "filter_enumerate" =>
       \A i \in 1..UpToDone : log[i].v = <<<<log[i].c.p.i - 1, cfg.A[log[i].c.p.i]>>>>

ZipKinds == {"zip2", "zip", "zip2f", "zip3", "sumzip2"}

\* C11: once an input of zip (or zip2) has been exhausted, which is when the
\* zip ranger first returns true, every later invocation returns true and
\* delivers no composite, whatever its sink.
C11_ZipStaysExhausted ==
  (cfg.kind \in ZipKinds /\ done.at # 0) => (last.ret /\ Len(log) = done.len)

\* C12: over the lifetime of a ranger no element is delivered twice, whatever
\* the invocations and their sinks: no cursor reaches the caller's sinks a
\* second time, and a ranger that has returned true returns true again and
\* delivers nothing.
C12_NoRedelivery ==
  /\ \A i, j \in 1..Len(log) : log[i].c = log[j].c => i = j
  /\ done.at # 0 => (last.ret /\ Len(log) = done.len)

\* The number of elements of the sources a pipeline runs over, a source
\* counted once for each ranger over it.
SourceElems(c) ==
  CASE c.kind \in KindsB \cup KindsNB \cup {"zip2f", "sumzip2"} -> Len(c.A) + Len(c.B)
    [] c.kind \in {"zip3", "ranger_join", "join", "unique_join"} ->
         2 * Len(c.A) + Len(c.B)
    [] OTHER -> Len(c.A)

\* C13: a pipeline over finite sources that is invoked again and again
\* returns true in the end, however its sinks stop, and the first invocation
\* to return true is at most the (number of source elements + 1)-th: every
\* invocation that returns false has delivered an element not delivered
\* before.
C13_Terminates ==
  /\ [](/\ done.at = 0 => (ninv <= Len(log) /\ Len(log) <= SourceElems(cfg))
        /\ done.at # 0 => done.at <= SourceElems(cfg) + 1)
  /\ <>(done.at # 0)

\* Three elements, each invocation stopped at the element it delivers: the
\* fourth invocation is the first to return true.
C13_Witness ==
  /\ SourceElems(cfg) = 3
  /\ done.at = 4
  /\ done.len = 3

\* What the caller's sink is given by an invocation x that it does not stop.
Values(x) == [i \in 1..Len(x.w.log) |-> x.w.log[i].v[1]]

\* C14: accumulate's sink returns true on every delivery, so that the result
\* is init plus the sum of every element the ranger delivers to a sink that
\* never stops; and for take(n, concat(all(R), all(R))) under filter and
\* transform it is init plus the hand-written fold over the first n elements
\* of R followed by R, for every n >= 0, n > 2 * len(R) included.
C14_AccumulateFolds ==
  /\ res.op = "accumulate" =>
       res.val = res.init + SumSeq(Values(Invoke(rgr, <<OutSink(0, 1)>>, World)))
  /\ (cfg.kind = "test2" /\ FreshSum) =>
       res.val = res.init + test2_handwritten(cfg.A, cfg.n)

\* test2 with n between len(R) and 2 * len(R): the first ranger of concat is
\* exhausted and take ends the second.
C14_Witness ==
  /\ cfg.kind = "test2"
  /\ cfg.A = <<2, 1, 2>>
  /\ cfg.n = 4
  /\ FreshSum
  /\ res.val = res.init + 18


C16_CursorsInOwnStorage ==
  [][(cfg.kind \in CopyKinds /\ ninv' = ninv + 1) =>
       /\ ~ub'
       /\ OwnedBuf(rgr') \in mem'.live
       /\ \A i \in (Len(log) + 1)..Len(log') : log'[i].c.src = <<"H", OwnedBuf(rgr')>>]_vars


\* C17: whenever the sink given to take(n, r) returned false during an
\* invocation, that invocation returns false, also when that delivery
\* brought the remaining count to 0.
C17_TakeForwardsStop ==
  (cfg.kind = "take" /\ ninv > 0 /\ last.stopped) => ~last.ret

\* C18: within one invocation, once the caller's sink has returned false
\* it is called no more before the invocation returns.
C18_NoLateDelivery == ~last.late


\* The iterator a cursor of transform is made over, and the number of
\* transforms between it and the caller's sink.
RECURSIVE Base(_)
Base(c) == IF c.k = "fun" THEN Base(c.p) ELSE c

RECURSIVE Depth(_)
Depth(c) == IF c.k = "fun" THEN 1 + Depth(c.p) ELSE 0

RECURSIVE Pow3(_)
Pow3(k) == IF k = 0 THEN 1 ELSE 3 * Pow3(k - 1)

\* C19: transform(f, r) calls f only when a cursor it delivered is
\* dereferenced: in every invocation the number of calls of f is the number
\* of dereferences the sink performs on the cursors delivered (none for a
\* sink that does not dereference, m for each cursor dereferenced m times,
\* once per transform the cursor passes through), and each dereference
\* gives f of the upstream element the cursor refers to.
C19_TransformLazy ==
  (cfg.kind \in TransformKinds /\ ninv > 0) =>
    /\ \A i \in 1..Len(log) :
         /\ Depth(log[i].c) = IF cfg.kind = "x3x3" THEN 2 ELSE 1
         /\ log[i].v = [j \in 1..cfg.nd |->
                          Pow3(Depth(log[i].c)) * cfg.A[Base(log[i].c).i]]
    /\ last.fcalls = (IF cfg.kind = "x3x3" THEN 2 ELSE 1) * last.calls * cfg.nd

\* transform(x3, all(S)) over three elements with a sink that dereferences
\* every cursor twice: six calls of x3 in the one invocation.
C19_Witness ==
  /\ cfg.kind = "x3"
  /\ cfg.nd = 2
  /\ ninv = 1
  /\ last.calls = 3
  /\ last.fcalls = 6
  /\ log[3].v = <<3 * cfg.A[3], 3 * cfg.A[3]>>


\* The positions <<j, i>> of a vector of vectors from the j-th vector on, in
\* outer order then inner order; with uniq, only the first position of each
\* run of equal elements within a vector.
RECURSIVE JoinFlat(_, _, _)
JoinFlat(R, j, uniq) ==
  IF j > Len(R) THEN <<>>
  ELSE SelectSeq([i \in 1..Len(R[j]) |-> <<j, i>>],
                 LAMBDA e : ~uniq \/ e[2] = 1 \/ R[j][e[2]] # R[j][e[2] - 1])
         \o JoinFlat(R, j + 1, uniq)

JoinExp == JoinFlat(mem.R, 1, cfg.kind = "join")

JoinVals == [k \in 1..Len(JoinExp) |-> mem.R[JoinExp[k][1]][JoinExp[k][2]]]

\* The ranger over the outer vector, and the one over a sub-source.
OuterAll(r) == IF r.rgr.op = "all" THEN r.rgr ELSE r.rgr.rgr
SubAll(r) == IF r.op = "all" THEN r ELSE r.rgr

\* C20: for join over a vector of vectors, with all_adaption (ranger_join)
\* and with the identity adaptation over unique_adaptor's rangers, under any
\* pattern of sink stops: the elements delivered up to the first invocation
\* that returns true are those of the sub-sources in outer order then inner
\* order, each once, an empty sub-source giving none; and after an
\* invocation that was stopped the sub-ranger over the sub-source of the
\* last delivered element is the one stored, and the outer ranger stands
\* just after that sub-source, so that the stored sub-ranger is resumed
\* before any further outer element is taken.  accumulate gives the sum.
C20_JoinOrder ==
  cfg.kind \in JoinKinds =>
    /\ UpToDone <= Len(JoinExp)
    /\ \A k \in 1..UpToDone :
         /\ log[k].c = PosCursor(<<"R", JoinExp[k][1]>>, JoinExp[k][2])
         /\ log[k].v = <<JoinVals[k]>>
    /\ done.at # 0 => done.len = Len(JoinExp)
    /\ (ninv > 0 /\ done.at = 0) =>
         /\ Len(log) > 0
         /\ Len(rgr.osrgr) = 1
         /\ SubAll(rgr.osrgr[1]).src = <<"R", JoinExp[Len(log)][1]>>
         /\ cfg.kind = "ranger_join" => rgr.osrgr[1].first = JoinExp[Len(log)][2] + 1
         /\ OuterAll(rgr).first = JoinExp[Len(log)][1] + 1
    /\ FreshSum => res.val = res.init + SumSeq(JoinVals)

\* ranger_join over <<<<1, 2>>, <<>>, <<1, 2>>>> stopped at every element:
\* after three invocations the third sub-ranger is stored, stopped midway,
\* the empty second sub-source having given nothing.
C20_Witness ==
  /\ cfg.kind = "ranger_join"
  /\ cfg.A = <<1, 2>>
  /\ cfg.B = <<>>
  /\ ninv = 3
  /\ done.at = 0
  /\ Len(log) = 3
  /\ log[3].c = PosCursor(<<"R", 3>>, 1)
  /\ rgr.osrgr[1].src = <<"R", 3>>
  /\ rgr.osrgr[1].first = 2


\* The positions of S at which a run of consecutive equal elements starts.
RunStarts(S) ==
  SelectSeq([i \in 1..Len(S) |-> i], LAMBDA i : i = 1 \/ S[i] # S[i - 1])

\* C21: for unique(all(S)) and any pattern of sink stops, a stop on the
\* first element and a stop on an element that differs from its predecessor
\* included: the cursors delivered up to the first invocation that returns
\* true are the first positions of the runs of S, in order, each once; and
\* after every stopped invocation the cursor unique retains is that of the
\* last delivered element.
C21_UniqueResumes ==
  cfg.kind = "unique" =>
    /\ UpToDone <= Len(RunStarts(cfg.A))
    /\ \A k \in 1..UpToDone : DeliveredAt(k, "A", RunStarts(cfg.A)[k], cfg.A)
    /\ done.at # 0 => done.len = Len(RunStarts(cfg.A))
    /\ (ninv > 0 /\ done.at = 0) =>
         /\ ~rgr.start
         /\ Len(log) > 0
         /\ rgr.p = log[Len(log)].c

\* A source of two runs stopped on its first element and then on the first
\* element of its second run; the third invocation finds nothing more.
C21_Witness ==
  /\ cfg.kind = "unique"
  /\ Len(cfg.A) = 3
  /\ cfg.A[1] = cfg.A[2]
  /\ cfg.A[2] # cfg.A[3]
  /\ ninv = 3
  /\ done.at = 3
  /\ Len(log) = 2
  /\ log[2].c = PosCursor(<<"A">>, 3)
  /\ last.calls = 0


\* C22: zip delivers as many composites as the least number of elements an
\* input delivers on its own, none of the elements pulled from r2..rk being
\* discarded, also for a take-limited input: zip(all(A), take(n, all(B)))
\* delivers min(len(A), n, len(B)) composites by the time it returns true.
C22_ZipTakeCount ==
  (cfg.kind = "zip_take" /\ done.at # 0) =>
    done.len = Min(Len(cfg.A), Min(cfg.n, Len(cfg.B)))


\* The scenario of TEST_CASE zip2: I = [0,1,2,3] zipped with the odd
\* elements of S = [1,2,3,4], by zip2 or zip, alone or under transform(sum).
ZipTest ==
  /\ cfg.kind \in {"zip2f", "zipf", "sumzip2", "sumzipf"}
  /\ cfg.A = Test0123
  /\ cfg.B = Test1234
  /\ cfg.pred = "is_odd"

\* C23 as amended: the zip of I = [0,1,2,3] with filter(is_odd, all(S)),
\* S = [1,2,3,4], delivers exactly two composites, which dereference to
\* (0,1) and (1,3): the i-th element of I with the i-th odd element of S;
\* and the accumulated sum of their pair sums from 0 is 5.
C23_ZipFilterTest ==
  ZipTest =>
    /\ cfg.kind \in {"zip2f", "zipf"} =>
         /\ UpToDone <= 2
         /\ UpToDone >= 1 => log[1].v = <<<<0, 1>>>>
         /\ UpToDone >= 2 => log[2].v = <<<<1, 3>>>>
         /\ done.at # 0 => done.len = 2
    /\ (FreshSum /\ res.init = 0) => res.val = 5

\* C23 as stated: the two composites dereference to (0,1) and (2,3), and
\* the accumulated sum of their pair sums is 5.
C23_ZipFilterAsStated ==
  ZipTest =>
    /\ cfg.kind \in {"zip2f", "zipf"} =>
         /\ UpToDone <= 2
         /\ UpToDone >= 1 => log[1].v = <<<<0, 1>>>>
         /\ UpToDone >= 2 => log[2].v = <<<<2, 3>>>>
         /\ done.at # 0 => done.len = 2
    /\ (FreshSum /\ res.init = 0) => res.val = 5

\* zip2 of the test, invoked once with a sink that does not stop: both
\* composites are delivered and the ranger returns true.
C23_Witness ==
  /\ ZipTest
  /\ cfg.kind = "zip2f"
  /\ ninv = 1
  /\ done.at = 1
  /\ Len(log) = 2
  /\ log[2].v = <<<<1, 3>>>>


RECURSIVE FlatRuns(_, _, _, _)
FlatRuns(R, j, i, prev) ==
  IF j > Len(R) THEN <<>>
  ELSE IF i > Len(R[j]) THEN FlatRuns(R, j + 1, 1, prev)
  ELSE IF R[j][i] = prev THEN FlatRuns(R, j, i + 1, prev)
  ELSE <<[c |-> PosCursor(<<"R", j>>, i), v |-> <<R[j][i]>>]>>
         \o FlatRuns(R, j, i + 1, R[j][i])

RECURSIVE SumVals(_)
SumVals(es) == IF es = <<>> THEN 0 ELSE Head(es).v[1] + SumVals(Tail(es))

UniqueJoinHolds(E) ==
  /\ UpToDone <= Len(E)
  /\ SubSeq(log, 1, UpToDone) = SubSeq(E, 1, UpToDone)
  /\ done.at # 0 => done.len = Len(E)
  /\ FreshSum => res.val = res.init + SumVals(E)

\* C25: for every vector of vectors R, unique(ranger_join(all(R))) delivers,
\* up to the first invocation that returns true and under any pattern of
\* sink stops, the flattened sequence of R with each run of consecutive
\* equal elements collapsed to its first element, a run that goes on across
\* a sub-source boundary (or across an empty sub-source) being one run; and
\* accumulate of the fresh ranger is the sum of the collapsed sequence.
C25_UniqueJoin ==
  cfg.kind = "unique_join" => UniqueJoinHolds(FlatRuns(mem.R, 1, 1, 0))

\* R = <<<<1, 2>>, <<2>>, <<1, 2>>>> stopped at every element: the run of 2
\* goes on from the first sub-source through the second, and the third
\* invocation delivers the 1 of the third sub-source.
C25_Witness ==
  /\ cfg.kind = "unique_join"
  /\ cfg.A = <<1, 2>>
  /\ cfg.B = <<2>>
  /\ ninv = 3
  /\ Len(log) = 3
  /\ log[2].c = PosCursor(<<"R", 1>>, 2)
  /\ log[3].c = PosCursor(<<"R", 3>>, 1)
  /\ last.stopped


\* zip2 over the two inputs of a zip, each in the state zip holds it in.
AsZip2(r) == [op |-> "zip2", zp |-> r.zp, rgr1 |-> r.rgr, rgr2 |-> r.rgrs[1]]

\* x is an invocation of zip and y the invocation of zip2 with the same sink.
SameInvocation(x, y) ==
  /\ x.ret = y.ret
  /\ x.w.log = y.w.log
  /\ x.sink = y.sink
  /\ x.w = y.w
  /\ AsZip2(x.r) = y.r

\* C26: zip2(r1, r2) and zip(r1, r2) are equivalent.  They start from equal
\* inputs; and from every state zip reaches, with zip2 holding the same
\* composite cursor and the same inputs in the same states, an invocation
\* with any sink delivers the same composites in the same order, returns
\* the same value and leaves zip2 again with what zip holds.  So driven by
\* the same sequence of sinks the two stay equal for ever.
C26_ZipIsZip2 ==
  Len(rgr.rgrs) = 1 =>
    /\ ninv = 0 => AsZip2(rgr) = zip2(rgr.rgr, rgr.rgrs[1])
    /\ \A stopAt \in Stops :
         SameInvocation(Invoke(rgr, <<OutSink(stopAt, cfg.nd)>>, World),
                        Invoke(AsZip2(rgr), <<OutSink(stopAt, cfg.nd)>>, World))

\* zip over a filtered input, stopped at its first composite and resumed.
C26_Witness ==
  /\ cfg.kind = "zipf"
  /\ Len(cfg.A) = 3
  /\ ninv = 2
  /\ Len(log) = 2
  /\ last.calls = 1
  /\ last.stopped
  /\ ~last.ret


\* C27: for every pipeline and every sink, the ones that return true again
\* after a false included, an invocation that returns false has delivered
\* at least one cursor to the caller's sink, and that sink returned false
\* on the last cursor it was given: no combinator returns false on its own
\* account.
C27_FalseIsTheSinks ==
  (ninv > 0 /\ ~last.ret) => (last.calls >= 1 /\ last.stopped)

\* concat(take(1, all(A)), all(B)) with a sink that returns false from its
\* first call on: take reports true, concat goes on to all(B), and the
\* invocation returns the false the sink gave to the second cursor.
C27_Witness ==
  /\ cfg.kind = "concat_take"
  /\ cfg.n = 1
  /\ ninv = 1
  /\ ~last.ret
  /\ last.calls = 2
  /\ last.late
  /\ last.stopped


\* C28: for every source S and every n >= 0, unique(take(n, all(S)))
\* delivers, by the time it returns true, the first min(n, len(S)) elements
\* of S with consecutive duplicates collapsed, each at the position its run
\* starts; for n = 1 and non-empty S it delivers S[0].
C28_UniqueOfTake ==
  (cfg.kind = "unique_take" /\ done.at # 0) =>
    /\ done.len = Len(RunStarts(SubSeq(cfg.A, 1, Min(cfg.n, Len(cfg.A)))))
    /\ \A k \in 1..done.len :
         DeliveredAt(k, "A", RunStarts(SubSeq(cfg.A, 1, Min(cfg.n, Len(cfg.A))))[k], cfg.A)

====
